---- MODULE Spec2Model ----
(***************************************************************************)
(* Expense-Management-System backend: the expenses table, the attachment   *)
(* directory and the HTTP handlers of src/api/routes/expense.py with the   *)
(* repository functions of src/repository/crud/expense.py they call, and   *)
(* the registration handler of src/api/routes/user.py.                     *)
(*                                                                         *)
(* Amounts are integers counting thousandths of the currency unit, so that *)
(* round(x, 2) is a real conversion.  Strings are sequences of characters. *)
(* A date is a record [year, month, day].                                  *)
(***************************************************************************)
EXTENDS Integers, Sequences, FiniteSets, TLC

VARIABLES
    expenses,   \* table "expenses": expenses_id -> row
    category,   \* table "category": category_id -> [name, is_active]
    users,      \* table "users": user_id -> [username]
    files,      \* names of the files in INVOICE_UPLOAD_DIR
    uuids,      \* how many uuid4() values have been drawn
    resp,       \* the response of the request being answered
    sessions    \* the database sessions of the requests that run side by side

vars == <<expenses, category, users, files, uuids, resp, sessions>>

\* ------------------------------------------------------------------ bounds

\* Rows the expenses table may hold.
MaxExpenses == 2

\* ------------------------------------------------------- values and helpers

\* A JSON member / a Python Optional: missing key, null (None), or a value.
Absent == [k |-> "absent"]
Null == [k |-> "null"]
J(v) == [k |-> "val", v |-> v]
IsVal(x) == x.k = "val"
IsNull(x) == x.k = "null"

\* No request is being answered.
NoResp == [op |-> "none"]

Max(S) == CHOOSE x \in S : \A y \in S : y <= x
Min(S) == CHOOSE x \in S : \A y \in S : x <= y

\* Python's range(a, b).
PyRange(a, b) == a .. (b - 1)

\* date < date
DateLess(a, b) ==
    \/ a.year < b.year
    \/ a.year = b.year /\ a.month < b.month
    \/ a.year = b.year /\ a.month = b.month /\ a.day < b.day

\* date.strftime("%b")
MonthAbbr(m) ==
    <<"Jan", "Feb", "Mar", "Apr", "May", "Jun",
      "Jul", "Aug", "Sep", "Oct", "Nov", "Dec">>[m]

\* round(x, 2) of a float, x in thousandths: the nearest hundredth; a tie
\* goes to the even hundredth.
Round2(x) ==
    LET r == x % 10
        down == x - r
    IN  IF r < 5 THEN down
        ELSE IF r > 5 THEN down + 10
        ELSE IF (down \div 10) % 2 = 0 THEN down ELSE down + 10

\* ------------------------------------------------------- SQL over expenses

RECURSIVE SumOver(_, _)
SumOver(tbl, ids) ==
    IF ids = {} THEN 0
    ELSE LET i == CHOOSE x \in ids : TRUE
         IN  tbl[i].amount + SumOver(tbl, ids \ {i})

\* func.sum(ExpenseModel.amount) over the selected rows: NULL over no row.
FuncSum(tbl, ids) == IF ids = {} THEN Null ELSE J(SumOver(tbl, ids))

\* float(result.scalar() or 0)
ScalarOr0(x) == IF IsVal(x) /\ x.v # 0 THEN x.v ELSE 0

\* .where(func.extract("year", ExpenseModel.expense_date) == year)
WhereYear(tbl, ids, year) == {i \in ids : tbl[i].expense_date.year = year}

\* .where(func.extract("month", ExpenseModel.expense_date) == month)
WhereMonth(tbl, ids, month) == {i \in ids : tbl[i].expense_date.month = month}

\* .where(func.extract("month", ExpenseModel.expense_date).in_(months))
WhereMonthIn(tbl, ids, months) ==
    {i \in ids : tbl[i].expense_date.month \in months}

RECURSIVE SortedDesc(_)
SortedDesc(S) ==
    IF S = {} THEN <<>>
    ELSE LET m == Max(S) IN <<m>> \o SortedDesc(S \ {m})

RECURSIVE SortedAsc(_)
SortedAsc(S) ==
    IF S = {} THEN <<>>
    ELSE LET m == Min(S) IN <<m>> \o SortedAsc(S \ {m})

\* The distinct years sorted without reverse=True.
GetAvailableYearsAscending(tbl) ==
    SortedAsc({tbl[i].expense_date.year : i \in DOMAIN tbl})

\* get_available_years
GetAvailableYears(tbl) ==
    SortedDesc({tbl[i].expense_date.year : i \in DOMAIN tbl})

InSeq(x, s) == \E n \in 1 .. Len(s) : s[n] = x

\* ---------------------------------------------------------- general summary

CurrentQuarter(current_month) == (current_month - 1) \div 3 + 1

LastMonth(current_month) ==
    IF current_month = 1 THEN 12 ELSE current_month - 1

\* LastMonthYear taking January's year from the requested year.
LastMonthYearOfRequest(year, now) ==
    IF now.month = 1 THEN year - 1 ELSE year

LastMonthYear(year, now) ==
    IF now.month = 1 THEN now.year - 1 ELSE year

LastQuarter(current_quarter) ==
    IF current_quarter - 1 = 0 THEN 4 ELSE current_quarter - 1

\* LastQuarterYear counting from the requested year.
LastQuarterYearOfRequest(year, now) ==
    IF CurrentQuarter(now.month) - 1 = 0 THEN year - 1 ELSE year

LastQuarterYear(year, now) ==
    IF CurrentQuarter(now.month) - 1 = 0 THEN now.year - 1 ELSE now.year

\* QuarterMonths with the end of the range taken as inclusive.
QuarterMonthsInclusive(quarter) == (quarter - 1) * 3 + 1 .. quarter * 3 + 1

QuarterMonths(quarter) == PyRange((quarter - 1) * 3 + 1, quarter * 3 + 1)

\* TotalSpending of the expenses of one user only.
TotalSpendingOfUser(tbl, year) ==
    ScalarOr0(FuncSum(tbl,
        {i \in WhereYear(tbl, DOMAIN tbl, year) : tbl[i].user_id = "u1"}))

TotalSpending(tbl, year) ==
    ScalarOr0(FuncSum(tbl, WhereYear(tbl, DOMAIN tbl, year)))

\* ThisMonthSpending of the current year in place of the requested year.
ThisMonthSpendingOfCurrentYear(tbl, year, now) ==
    ScalarOr0(FuncSum(tbl,
        WhereMonth(tbl, WhereYear(tbl, DOMAIN tbl, now.year), now.month)))

ThisMonthSpending(tbl, year, now) ==
    ScalarOr0(FuncSum(tbl,
        WhereMonth(tbl, WhereYear(tbl, DOMAIN tbl, year), now.month)))

LastMonthSpending(tbl, year, now) ==
    ScalarOr0(FuncSum(tbl,
        WhereMonth(tbl, WhereYear(tbl, DOMAIN tbl, LastMonthYear(year, now)),
                   LastMonth(now.month))))

ThisQuarterSpending(tbl, year, now) ==
    ScalarOr0(FuncSum(tbl,
        WhereMonthIn(tbl, WhereYear(tbl, DOMAIN tbl, year),
                     QuarterMonths(CurrentQuarter(now.month)))))

LastQuarterSpending(tbl, year, now) ==
    ScalarOr0(FuncSum(tbl,
        WhereMonthIn(tbl,
                     WhereYear(tbl, DOMAIN tbl, LastQuarterYear(year, now)),
                     QuarterMonths(LastQuarter(CurrentQuarter(now.month))))))

\* get_general_summary_data(db, year), datetime.now() reading `now`
GetGeneralSummaryData(tbl, year, now) ==
    [total_spending |-> Round2(TotalSpending(tbl, year)),
     this_month     |-> Round2(ThisMonthSpending(tbl, year, now)),
     last_month     |-> Round2(LastMonthSpending(tbl, year, now)),
     this_quarter   |-> Round2(ThisQuarterSpending(tbl, year, now)),
     last_quarter   |-> Round2(LastQuarterSpending(tbl, year, now))]

\* ------------------------------------------------------ last-5-months rollup

RECURSIVE SortDates(_)
SortDates(S) ==
    IF S = {} THEN <<>>
    ELSE LET d == CHOOSE x \in S : \A y \in S : y = x \/ DateLess(x, y)
         IN  <<d>> \o SortDates(S \ {d})

\* The grouped query: one record per distinct expense_date of the year, with
\* the sum of its amounts, ordered by expense_date.
RawTotals(tbl, year) ==
    LET ids == WhereYear(tbl, DOMAIN tbl, year)
        dates == SortDates({tbl[i].expense_date : i \in ids})
    IN  [n \in 1 .. Len(dates) |->
            [expense_date |-> dates[n],
             total_amount |->
                SumOver(tbl, {i \in ids : tbl[i].expense_date = dates[n]})]]

\* One turn of the loop over raw_totals; the dict monthly_totals is the
\* sequence of its entries in insertion order.
AddRecord(monthly_totals, record) ==
    LET month == MonthAbbr(record.expense_date.month)
        month_num == record.expense_date.month
        with_key ==
            IF \E n \in 1 .. Len(monthly_totals) : monthly_totals[n].month = month
            THEN monthly_totals
            ELSE Append(monthly_totals,
                        [month |-> month, amount |-> 0, month_num |-> month_num])
    IN  [n \in 1 .. Len(with_key) |->
            IF with_key[n].month = month
            THEN [with_key[n] EXCEPT !.amount = @ + record.total_amount]
            ELSE with_key[n]]

RECURSIVE MonthlyTotals(_, _)
MonthlyTotals(raw_totals, monthly_totals) ==
    IF raw_totals = <<>> THEN monthly_totals
    ELSE MonthlyTotals(Tail(raw_totals), AddRecord(monthly_totals, Head(raw_totals)))

\* The sort without reverse=True.
RECURSIVE SortedByMonthNumAsc(_)
SortedByMonthNumAsc(s) ==
    IF s = <<>> THEN <<>>
    ELSE LET low == Min({s[n].month_num : n \in 1 .. Len(s)})
             at == Min({n \in 1 .. Len(s) : s[n].month_num = low})
         IN  <<s[at]>> \o
             SortedByMonthNumAsc(SubSeq(s, 1, at - 1) \o SubSeq(s, at + 1, Len(s)))

\* sorted(items, key=month_num, reverse=True): stable, equal keys keep their order.
RECURSIVE SortedByMonthNumDesc(_)
SortedByMonthNumDesc(s) ==
    IF s = <<>> THEN <<>>
    ELSE LET top == Max({s[n].month_num : n \in 1 .. Len(s)})
             at == Min({n \in 1 .. Len(s) : s[n].month_num = top})
         IN  <<s[at]>> \o
             SortedByMonthNumDesc(SubSeq(s, 1, at - 1) \o SubSeq(s, at + 1, Len(s)))

\* s[:n]
Take(s, n) == SubSeq(s, 1, IF Len(s) < n THEN Len(s) ELSE n)

\* How many months the rollup keeps.
LastMonthsKept == 5

\* get_last_5_months_summary(db, year)
GetLast5MonthsSummary(tbl, year) ==
    LET sorted_months ==
            Take(SortedByMonthNumDesc(MonthlyTotals(RawTotals(tbl, year), <<>>)),
                 LastMonthsKept)
    IN  [n \in 1 .. Len(sorted_months) |->
            [month |-> sorted_months[n].month, amount |-> sorted_months[n].amount]]

\* ---------------------------------------------------------- category rollup

\* The grouped query without its filter on the year.
CategoryRowsAllYears(tbl, cat, year) ==
    LET ids == {i \in DOMAIN tbl : tbl[i].category_id \in DOMAIN cat}
        names == {cat[tbl[i].category_id].name : i \in ids}
    IN  {[category |-> name,
          amount |-> SumOver(tbl, {i \in ids : cat[tbl[i].category_id].name = name})]
            : name \in names}

\* The grouped query of get_expenses_by_category: the expenses of the year
\* joined with their category, grouped by category name.
CategoryRows(tbl, cat, year) ==
    LET ids == {i \in WhereYear(tbl, DOMAIN tbl, year) :
                    tbl[i].category_id \in DOMAIN cat}
        names == {cat[tbl[i].category_id].name : i \in ids}
    IN  {[category |-> name,
          amount |-> SumOver(tbl, {i \in ids : cat[tbl[i].category_id].name = name})]
            : name \in names}

RECURSIVE Orderings(_)
Orderings(S) ==
    IF S = {} THEN {<<>>}
    ELSE UNION {{<<x>> \o rest : rest \in Orderings(S \ {x})} : x \in S}

\* The rows in the order the query happens to give them, left unsorted.
GetExpensesByCategoryUnsorted(tbl, cat, year) ==
    Orderings(CategoryRows(tbl, cat, year))

\* get_expenses_by_category(db, year): the results it can return.  The query
\* states no order, and list.sort(reverse=True) keeps rows of equal amount in
\* the order of the query.
GetExpensesByCategory(tbl, cat, year) ==
    {rows \in Orderings(CategoryRows(tbl, cat, year)) :
        \A m, n \in 1 .. Len(rows) : m < n => rows[m].amount >= rows[n].amount}

\* ------------------------------------------------ exceptions and responses

\* issubclass(a, b) for the exception classes the handlers meet.
IsSubclass(a, b) ==
    \/ a = b
    \/ b = "Exception"
    \/ b = "ValueError" /\ a \in {"JSONDecodeError", "ValidationError"}

\* An except clause that answers with HTTPException(status), or re-raises.
Except(class, status) == [class |-> class, reraise |-> FALSE, status |-> status]
ExceptReraise(class) == [class |-> class, reraise |-> TRUE, status |-> 0]

\* The first except clause of a try statement that catches exc; with none,
\* the exception leaves the handler as it is.
RECURSIVE Catch(_, _)
Catch(clauses, exc) ==
    IF clauses = <<>> THEN ExceptReraise(exc.class)
    ELSE IF IsSubclass(exc.class, Head(clauses).class) THEN Head(clauses)
    ELSE Catch(Tail(clauses), exc)

\* The status the framework answers with when exc leaves the endpoint: an
\* HTTPException carries its own, anything else is a server error.
FrameworkStatus(exc) == IF exc.class = "HTTPException" THEN exc.status ELSE 500

\* The status of the response when exc is raised inside the try statement.
StatusOf(clauses, exc) ==
    LET clause == Catch(clauses, exc)
    IN  IF clause.reraise THEN FrameworkStatus(exc) ELSE clause.status

HTTPException(status, detail) ==
    [k |-> "exc", class |-> "HTTPException", status |-> status, detail |-> detail]
Raised(class, detail) ==
    [k |-> "exc", class |-> class, status |-> 0, detail |-> detail]

\* `raise class(detail) from cause`
RaisedFrom(class, detail, cause) ==
    [k |-> "exc", class |-> class, status |-> 0, detail |-> detail, cause |-> cause]

\* The response to a request that ended in exc.
Failure(op, req, clauses, exc, calls) ==
    [op |-> op, req |-> req, status |-> StatusOf(clauses, exc),
     raised |-> exc, calls |-> calls, body |-> Null]

Success(op, req, status, calls, body) ==
    [op |-> op, req |-> req, status |-> status,
     raised |-> Null, calls |-> calls, body |-> body]

\* ------------------------------------------------ aggregate read endpoints

\* The except clauses without the one that lets an HTTPException pass.
GeneralSummaryExceptsNoReraise ==
    <<Except("ValueError", 400), Except("Exception", 500)>>

GeneralSummaryExcepts ==
    <<ExceptReraise("HTTPException"), Except("ValueError", 400), Except("Exception", 500)>>

\* get_general_summary_endpoint(year)
GeneralSummaryResponse(tbl, year, now) ==
    LET req == [year |-> year]
        available_years == GetAvailableYears(tbl)
    IN  IF available_years = <<>>
        THEN Failure("general_summary", req, GeneralSummaryExcepts,
                     HTTPException(404, "No expense data available."),
                     <<"get_available_years">>)
        ELSE IF IsVal(year) /\ ~InSeq(year.v, available_years)
        THEN Failure("general_summary", req, GeneralSummaryExcepts,
                     HTTPException(400, "No data available for year"),
                     <<"get_available_years">>)
        ELSE LET y == IF IsVal(year) THEN year.v ELSE available_years[1]
             IN  Success("general_summary", req, 200,
                         <<"get_available_years", "get_general_summary_data">>,
                         [year |-> y, now |-> now,
                          summary |-> GetGeneralSummaryData(tbl, y, now)])

ByCategoryExcepts == <<Except("ValueError", 400), Except("Exception", 500)>>

\* get_expenses_by_category_endpoint(year): the responses it can give.
ByCategoryResponses(tbl, cat, year) ==
    LET req == [year |-> year]
        available_years == GetAvailableYears(tbl)
    IN  IF available_years = <<>>
        THEN {Failure("by_category", req, ByCategoryExcepts,
                      HTTPException(404, "No expense data available."),
                      <<"get_available_years">>)}
        ELSE IF IsVal(year) /\ ~InSeq(year.v, available_years)
        THEN {Failure("by_category", req, ByCategoryExcepts,
                      HTTPException(400, "No data available for year"),
                      <<"get_available_years">>)}
        ELSE LET y == IF IsVal(year) THEN year.v ELSE available_years[1]
             IN  {Success("by_category", req, 200,
                          <<"get_available_years", "get_expenses_by_category">>,
                          [year |-> y, rows |-> rows])
                    : rows \in GetExpensesByCategory(tbl, cat, y)}

Last5MonthsExcepts == <<ExceptReraise("HTTPException"), Except("Exception", 500)>>

\* get_last_5_months_summary_endpoint(year)
Last5MonthsResponse(tbl, year) ==
    LET req == [year |-> J(year)]
        result == GetLast5MonthsSummary(tbl, year)
    IN  IF result = <<>>
        THEN Failure("last_5_months", req, Last5MonthsExcepts,
                     HTTPException(404, "No data found for year"),
                     <<"get_last_5_months_summary">>)
        ELSE Success("last_5_months", req, 200, <<"get_last_5_months_summary">>,
                     [year |-> year, rows |-> result])

\* ------------------------------------------------------ request payloads

SubjectMinLength == 2
SubjectMaxLength == 100
DescriptionMaxLength == 500
DescriptionMinWords == 2
EmployeeMaxLength == 100
EmployeeMinLength == 2

Digits == {"0", "1", "2", "3", "4", "5", "6", "7", "8", "9"}

\* len(description.split())
WordCount(s) ==
    Cardinality({n \in 1 .. Len(s) : s[n] # " " /\ (n = 1 \/ s[n - 1] = " ")})

\* ExpenseCreate without the bound `gt=0` on amount.
ValidPayloadAnyAmount(data) ==
    /\ IsVal(data.category_id)
    /\ IsVal(data.subject)
    /\ Len(data.subject.v) >= SubjectMinLength
    /\ Len(data.subject.v) <= SubjectMaxLength
    /\ IsVal(data.expense_date)
    /\ IsVal(data.amount)
    /\ data.reimbursable.k # "null"
    /\ IsVal(data.description) =>
        /\ Len(data.description.v) <= DescriptionMaxLength
        /\ WordCount(data.description.v) >= DescriptionMinWords
    /\ IsVal(data.employee) =>
        /\ Len(data.employee.v) <= EmployeeMaxLength
        /\ Len(data.employee.v) >= EmployeeMinLength
        /\ data.employee.v[1] \notin Digits

\* ExpenseCreate(**expense_data) raises no ValidationError.  ExpenseUpdate
\* inherits every field and validator of ExpenseCreate unchanged.
ValidPayload(data) ==
    /\ IsVal(data.category_id)
    /\ IsVal(data.subject)
    /\ Len(data.subject.v) >= SubjectMinLength
    /\ Len(data.subject.v) <= SubjectMaxLength
    /\ IsVal(data.expense_date)
    /\ IsVal(data.amount)
    /\ data.amount.v > 0
    /\ data.reimbursable.k # "null"
    /\ IsVal(data.description) =>
        /\ Len(data.description.v) <= DescriptionMaxLength
        /\ WordCount(data.description.v) >= DescriptionMinWords
    /\ IsVal(data.employee) =>
        /\ Len(data.employee.v) <= EmployeeMaxLength
        /\ Len(data.employee.v) >= EmployeeMinLength
        /\ data.employee.v[1] \notin Digits

\* The validated object, had the reimbursable flag defaulted to True.
ParsePayloadDefaultTrue(data) ==
    [category_id  |-> data.category_id,
     subject      |-> data.subject,
     expense_date |-> data.expense_date,
     amount       |-> data.amount,
     reimbursable |-> IF IsVal(data.reimbursable) THEN data.reimbursable ELSE J(TRUE),
     description  |-> IF IsVal(data.description) THEN data.description ELSE Null,
     employee     |-> IF IsVal(data.employee) THEN data.employee ELSE Null]

\* The validated object: every field holds a value or None; a missing
\* optional member takes the field's default.
ParsePayload(data) ==
    [category_id  |-> data.category_id,
     subject      |-> data.subject,
     expense_date |-> data.expense_date,
     amount       |-> data.amount,
     reimbursable |-> IF IsVal(data.reimbursable) THEN data.reimbursable ELSE J(FALSE),
     description  |-> IF IsVal(data.description) THEN data.description ELSE Null,
     employee     |-> IF IsVal(data.employee) THEN data.employee ELSE Null]

\* os.path.splitext(filename)[1]
SplitExt(filename) ==
    LET dot == Max({n \in 1 .. Len(filename) : filename[n] = "."} \cup {0})
    IN  IF dot <= 1 THEN <<>> ELSE SubSeq(filename, dot, Len(filename))

\* `invoice_image and invoice_image.filename`
HasUpload(invoice_image) == IsVal(invoice_image) /\ invoice_image.v.filename # <<>>

\* f"{uuid4()}{file_extension}", uuid4() giving its n-th value
ImageFilename(n, invoice_image) ==
    [uuid |-> n, ext |-> SplitExt(invoice_image.v.filename)]

\* --------------------------------------------------------- expense service

\* What a repository function leaves behind: the exception it raised (or
\* Null), the tables and directory after it, and its return value.
Outcome(exc, tbl, fs, n, value) ==
    [exc |-> exc, expenses |-> tbl, files |-> fs, uuids |-> n, value |-> value]

\* The commit of an INSERT or UPDATE of row passes the foreign keys.
ForeignKeysHold(cat, usr, row) ==
    row.category_id \in DOMAIN cat /\ row.user_id \in DOMAIN usr

\* create_expense that adds and commits the row before it saves the file.
CreateExpenseCommitsFirst(tbl, cat, usr, fs, n, user_id, expense, invoice_image, fault, t) ==
    LET upload == HasUpload(invoice_image)
        n1 == IF upload THEN n + 1 ELSE n
        image_filename == IF upload THEN J(ImageFilename(n1, invoice_image)) ELSE Null
        fs1 == IF upload /\ fault # "open_error" THEN fs \cup {image_filename.v} ELSE fs
        id == n1 + 1
        db_expense ==
            [subject       |-> expense.subject.v,
             expense_date  |-> expense.expense_date.v,
             reimbursable  |-> expense.reimbursable.v,
             amount        |-> expense.amount.v,
             description   |-> expense.description,
             invoice_image |-> image_filename,
             employee      |-> expense.employee,
             category_id   |-> expense.category_id.v,
             user_id       |-> user_id,
             updated_at    |-> t]
    IN  IF fault = "commit_error" \/ ~ForeignKeysHold(cat, usr, db_expense)
        THEN Outcome(RaisedFrom("RuntimeError", "Error creating expense",
                                Raised("DBAPIError", fault)),
                     tbl, fs, id, Null)
        ELSE IF upload /\ fault \in {"open_error", "write_error"}
        THEN Outcome(RaisedFrom("RuntimeError", "Error creating expense",
                        RaisedFrom("RuntimeError", "Error saving invoice image",
                                   Raised("IOError", fault))),
                     tbl @@ (id :> db_expense), fs1, id, Null)
        ELSE Outcome(Null, tbl @@ (id :> db_expense), fs1, id,
                     [expenses_id |-> id, row |-> db_expense])

\* create_expense(db, user_id, expense, invoice_image).  fault is what the
\* environment does to it: "none", "open_error" (the file cannot be opened),
\* "write_error" (the file is opened, the write fails), "commit_error".
CreateExpense(tbl, cat, usr, fs, n, user_id, expense, invoice_image, fault, t) ==
    LET upload == HasUpload(invoice_image)
        n1 == IF upload THEN n + 1 ELSE n
        image_filename == IF upload THEN J(ImageFilename(n1, invoice_image)) ELSE Null
        io_error == upload /\ fault \in {"open_error", "write_error"}
        fs1 == IF upload /\ fault # "open_error" THEN fs \cup {image_filename.v} ELSE fs
        id == n1 + 1
        db_expense ==
            [subject       |-> expense.subject.v,
             expense_date  |-> expense.expense_date.v,
             reimbursable  |-> expense.reimbursable.v,
             amount        |-> expense.amount.v,
             description   |-> expense.description,
             invoice_image |-> image_filename,
             employee      |-> expense.employee,
             category_id   |-> expense.category_id.v,
             user_id       |-> user_id,
             updated_at    |-> t]
    IN  IF io_error
        THEN Outcome(RaisedFrom("RuntimeError", "Error creating expense",
                        RaisedFrom("RuntimeError", "Error saving invoice image",
                                   Raised("IOError", fault))),
                     tbl, fs1, n1, Null)
        ELSE IF fault = "commit_error" \/ ~ForeignKeysHold(cat, usr, db_expense)
        THEN Outcome(RaisedFrom("RuntimeError", "Error creating expense",
                        IF fault = "commit_error" THEN Raised("DBAPIError", fault)
                        ELSE Raised("IntegrityError", "foreign key")),
                     tbl, fs1, id, Null)
        ELSE Outcome(Null, tbl @@ (id :> db_expense), fs1, id,
                     [expenses_id |-> id, row |-> db_expense])

\* get_expense_by_id(db, expense_id)
GetExpenseById(tbl, fs, n, expense_id) ==
    IF expense_id \notin DOMAIN tbl
    THEN Outcome(Raised("ValueError", "Expense not found"), tbl, fs, n, Null)
    ELSE Outcome(Null, tbl, fs, n, [expenses_id |-> expense_id, row |-> tbl[expense_id]])

\* `if expense_update.<field> is not None: expense.<field> = ...`
Assign(old, new) == IF IsVal(new) THEN new.v ELSE old
AssignNullable(old, new) == IF IsVal(new) THEN new ELSE old

\* The assignments of update_expense to the loaded row, one per payload
\* field that is not None.
ApplyUpdate(expense, expense_update) ==
    [expense EXCEPT
        !.category_id  = Assign(@, expense_update.category_id),
        !.subject      = Assign(@, expense_update.subject),
        !.expense_date = Assign(@, expense_update.expense_date),
        !.amount       = Assign(@, expense_update.amount),
        !.reimbursable = Assign(@, expense_update.reimbursable),
        !.description  = AssignNullable(@, expense_update.description),
        !.employee     = AssignNullable(@, expense_update.employee)]

\* An update that saves the uploaded file before it looks the expense up, and
\* finds none.
UpdateExpenseSavesFirst(tbl, cat, usr, fs, n, expense_id, expense_update, invoice_image, fault, t) ==
    IF HasUpload(invoice_image)
    THEN Outcome(Raised("ValueError", "Expense not found"), tbl,
                 fs \cup {ImageFilename(n + 1, invoice_image)}, n + 1, Null)
    ELSE Outcome(Raised("ValueError", "Expense not found"), tbl, fs, n, Null)

\* update_expense that leaves the previous invoice image in the directory.
UpdateExpenseKeepsOldFile(tbl, cat, usr, fs, n, expense_id, expense_update, invoice_image, fault, t) ==
    IF expense_id \notin DOMAIN tbl
    THEN Outcome(Raised("ValueError", "Expense not found"), tbl, fs, n, Null)
    ELSE
    LET loaded == ApplyUpdate(tbl[expense_id], expense_update)
        upload == HasUpload(invoice_image)
        n1 == IF upload THEN n + 1 ELSE n
        new_image_filename == ImageFilename(n1, invoice_image)
        io_error == upload /\ fault \in {"open_error", "write_error"}
        fs2 == IF upload /\ fault # "open_error" THEN fs \cup {new_image_filename} ELSE fs
        expense == [loaded EXCEPT
                        !.invoice_image = IF upload THEN J(new_image_filename) ELSE @,
                        !.updated_at = t]
    IN  IF io_error \/ fault = "commit_error" \/ ~ForeignKeysHold(cat, usr, expense)
        THEN Outcome(RaisedFrom("RuntimeError", "Error updating expense",
                        IF io_error THEN Raised("IOError", fault)
                        ELSE Raised("DBAPIError", fault)),
                     tbl, fs2, n1, Null)
        ELSE Outcome(Null, [tbl EXCEPT ![expense_id] = expense], fs2, n1,
                     [expenses_id |-> expense_id, row |-> expense])

\* update_expense(db, expense_id, expense_update, invoice_image).  fault:
\* "none", "remove_error" (os.remove of the old file fails), "open_error",
\* "write_error", "commit_error".
UpdateExpense(tbl, cat, usr, fs, n, expense_id, expense_update, invoice_image, fault, t) ==
    IF expense_id \notin DOMAIN tbl
    THEN Outcome(Raised("ValueError", "Expense not found"), tbl, fs, n, Null)
    ELSE
    LET loaded == ApplyUpdate(tbl[expense_id], expense_update)
        upload == HasUpload(invoice_image)
        has_old == upload /\ IsVal(loaded.invoice_image) /\ loaded.invoice_image.v \in fs
        remove_error == has_old /\ fault = "remove_error"
        fs1 == IF has_old /\ ~remove_error THEN fs \ {loaded.invoice_image.v} ELSE fs
        n1 == IF upload /\ ~remove_error THEN n + 1 ELSE n
        new_image_filename == ImageFilename(n1, invoice_image)
        io_error == upload /\ ~remove_error /\ fault \in {"open_error", "write_error"}
        fs2 == IF upload /\ ~remove_error /\ fault # "open_error"
               THEN fs1 \cup {new_image_filename} ELSE fs1
        expense == [loaded EXCEPT
                        !.invoice_image = IF upload THEN J(new_image_filename) ELSE @,
                        !.updated_at = t]
    IN  IF remove_error \/ io_error
             \/ fault = "commit_error" \/ ~ForeignKeysHold(cat, usr, expense)
        THEN Outcome(RaisedFrom("RuntimeError", "Error updating expense",
                        IF remove_error THEN Raised("OSError", fault)
                        ELSE IF io_error THEN Raised("IOError", fault)
                        ELSE IF fault = "commit_error" THEN Raised("DBAPIError", fault)
                        ELSE Raised("IntegrityError", "foreign key")),
                     tbl, fs2, n1, Null)
        ELSE Outcome(Null, [tbl EXCEPT ![expense_id] = expense], fs2, n1,
                     [expenses_id |-> expense_id, row |-> expense])

\* delete_expense without the removal of the invoice image.
DeleteExpenseKeepsFile(tbl, fs, n, expense_id, fault) ==
    IF expense_id \notin DOMAIN tbl
    THEN Outcome(Raised("ValueError", "Expense not found"), tbl, fs, n, Null)
    ELSE IF fault = "commit_error"
    THEN Outcome(Raised("RuntimeError", "Error deleting expense"), tbl, fs, n, Null)
    ELSE Outcome(Null, [i \in DOMAIN tbl \ {expense_id} |-> tbl[i]], fs, n, TRUE)

\* delete_expense that deletes and commits the row before it removes the
\* invoice image.
DeleteExpenseDeletesFirst(tbl, fs, n, expense_id, fault) ==
    IF expense_id \notin DOMAIN tbl
    THEN Outcome(Raised("ValueError", "Expense not found"), tbl, fs, n, Null)
    ELSE
    LET expense == tbl[expense_id]
        has_file == IsVal(expense.invoice_image) /\ expense.invoice_image.v \in fs
        deleted == [i \in DOMAIN tbl \ {expense_id} |-> tbl[i]]
    IN  IF fault = "commit_error"
        THEN Outcome(RaisedFrom("RuntimeError", "Error deleting expense",
                                Raised("DBAPIError", fault)),
                     tbl, fs, n, Null)
        ELSE IF has_file /\ fault = "remove_error"
        THEN Outcome(RaisedFrom("RuntimeError", "Error deleting expense",
                        RaisedFrom("RuntimeError", "Error deleting invoice image",
                                   Raised("OSError", fault))),
                     deleted, fs, n, Null)
        ELSE Outcome(Null, deleted,
                     IF has_file THEN fs \ {expense.invoice_image.v} ELSE fs, n, TRUE)

\* delete_expense(db, expense_id).  fault: "none", "remove_error",
\* "commit_error".
DeleteExpense(tbl, fs, n, expense_id, fault) ==
    IF expense_id \notin DOMAIN tbl
    THEN Outcome(Raised("ValueError", "Expense not found"), tbl, fs, n, Null)
    ELSE
    LET expense == tbl[expense_id]
        has_file == IsVal(expense.invoice_image) /\ expense.invoice_image.v \in fs
        remove_error == has_file /\ fault = "remove_error"
        fs1 == IF has_file /\ ~remove_error THEN fs \ {expense.invoice_image.v} ELSE fs
    IN  IF remove_error
        THEN Outcome(RaisedFrom("RuntimeError", "Error deleting expense",
                        RaisedFrom("RuntimeError", "Error deleting invoice image",
                                   Raised("OSError", fault))),
                     tbl, fs1, n, Null)
        ELSE IF fault = "commit_error"
        THEN Outcome(RaisedFrom("RuntimeError", "Error deleting expense",
                                Raised("DBAPIError", fault)),
                     tbl, fs1, n, Null)
        ELSE Outcome(Null, [i \in DOMAIN tbl \ {expense_id} |-> tbl[i]], fs1, n, TRUE)

\* ------------------------------------------------------- write endpoints

CreateExcepts ==
    <<Except("JSONDecodeError", 400), Except("ValueError", 400), Except("Exception", 500)>>

UpdateExcepts == <<Except("ValueError", 404), Except("Exception", 500)>>

DeleteExcepts == <<Except("ValueError", 404), Except("Exception", 500)>>

GetExcepts == <<Except("ValueError", 404), Except("Exception", 500)>>

\* json.loads(text) then the schema's constructor: the exception raised, or Null.
LoadPayload(body) ==
    IF ~body.json THEN Raised("JSONDecodeError", "Invalid JSON")
    ELSE IF ~ValidPayload(body.data) THEN Raised("ValidationError", "validation error")
    ELSE Null

\* The state and response a handler ends with, given the outcome of the
\* repository call it made.
Finish(op, req, clauses, ok_status, call, out) ==
    /\ expenses' = out.expenses
    /\ files' = out.files
    /\ uuids' = out.uuids
    /\ resp' = IF IsNull(out.exc)
               THEN Success(op, req, ok_status, <<call>>, out.value)
               ELSE Failure(op, req, clauses, out.exc, <<call>>)
    /\ UNCHANGED <<category, users, sessions>>

\* The handler ends before any repository call.
Reject(op, req, clauses, exc) ==
    /\ resp' = Failure(op, req, clauses, exc, <<>>)
    /\ UNCHANGED <<expenses, category, users, files, uuids, sessions>>

\* How many uuid4() values a behaviour may draw.
MaxUuids == 4

\* create_expense_endpoint: POST /expenses
CreateExpenseEndpoint(Bodies, Images, Faults, Times) ==
    /\ resp = NoResp
    /\ \E body \in Bodies, user_id \in DOMAIN users, invoice_image \in Images,
          fault \in Faults, t \in Times :
        LET req == [body |-> body, user_id |-> user_id, upload |-> HasUpload(invoice_image)]
            exc == LoadPayload(body)
        IN  IF ~IsNull(exc) THEN Reject("create", req, CreateExcepts, exc)
            ELSE /\ Cardinality(DOMAIN expenses) < MaxExpenses
                 /\ uuids + 2 <= MaxUuids
                 /\ Finish("create", req, CreateExcepts, 201, "create_expense",
                           CreateExpense(expenses, category, users, files, uuids, user_id,
                                         ParsePayload(body.data), invoice_image, fault, t))

\* update_expense_endpoint: PUT /expenses/{expense_id}
UpdateExpenseEndpoint(Ids, Bodies, Images, Faults, Times) ==
    /\ resp = NoResp
    /\ \E expense_id \in Ids, body \in Bodies, invoice_image \in Images,
          fault \in Faults, t \in Times :
        LET req == [expense_id |-> expense_id, body |-> body,
                    upload |-> HasUpload(invoice_image)]
            exc == LoadPayload(body)
        IN  IF ~IsNull(exc) THEN Reject("update", req, UpdateExcepts, exc)
            ELSE /\ uuids + 1 <= MaxUuids
                 /\ Finish("update", req, UpdateExcepts, 200, "update_expense",
                           UpdateExpense(expenses, category, users, files, uuids, expense_id,
                                         ParsePayload(body.data), invoice_image, fault, t))

\* delete_expense_endpoint: DELETE /expenses/{expense_id}
DeleteExpenseEndpoint(Ids, Faults) ==
    /\ resp = NoResp
    /\ \E expense_id \in Ids, fault \in Faults :
        Finish("delete", [expense_id |-> expense_id], DeleteExcepts, 200, "delete_expense",
               DeleteExpense(expenses, files, uuids, expense_id, fault))

\* get_expense_endpoint: GET /expenses/{expense_id}
GetExpenseEndpoint(Ids) ==
    /\ resp = NoResp
    /\ \E expense_id \in Ids :
        Finish("get", [expense_id |-> expense_id], GetExcepts, 200, "get_expense_by_id",
               GetExpenseById(expenses, files, uuids, expense_id))

\* get_general_summary_endpoint: GET /expenses/general-summary
GetGeneralSummaryEndpoint(YearParams, Clocks) ==
    /\ resp = NoResp
    /\ \E year \in YearParams, now \in Clocks :
        resp' = GeneralSummaryResponse(expenses, year, now)
    /\ UNCHANGED <<expenses, category, users, files, uuids, sessions>>

\* get_expenses_by_category_endpoint: GET /expenses/by-category
GetExpensesByCategoryEndpoint(YearParams) ==
    /\ resp = NoResp
    /\ \E year \in YearParams :
        resp' \in ByCategoryResponses(expenses, category, year)
    /\ UNCHANGED <<expenses, category, users, files, uuids, sessions>>

\* get_last_5_months_summary_endpoint: GET /expenses/last_5_months
GetLast5MonthsSummaryEndpoint(Years) ==
    /\ resp = NoResp
    /\ \E year \in Years : resp' = Last5MonthsResponse(expenses, year)
    /\ UNCHANGED <<expenses, category, users, files, uuids, sessions>>

\* The response is sent; the next request can be served.
Return ==
    /\ resp # NoResp
    /\ resp' = NoResp
    /\ UNCHANGED <<expenses, category, users, files, uuids, sessions>>

\* ------------------------------------------------------------ initial state

InitCategory ==
    ("c1" :> [name |-> "Food", is_active |-> TRUE]) @@
    ("c2" :> [name |-> "Travel", is_active |-> TRUE])

InitUsers == ("u1" :> [username |-> "alice"]) @@ ("u2" :> [username |-> "bob"])

\* Two users are registered and two categories exist; no expense, no file.
Init ==
    /\ expenses = <<>>
    /\ category = InitCategory
    /\ users = InitUsers
    /\ files = {}
    /\ uuids = 0
    /\ resp = NoResp
    /\ sessions = <<>>

\* A POST /expenses body that is a JSON object with these members.
Body(category_id, subject, expense_date, amount, reimbursable, description, employee) ==
    [json |-> TRUE,
     data |-> [category_id |-> category_id, subject |-> subject,
               expense_date |-> expense_date, amount |-> amount,
               reimbursable |-> reimbursable, description |-> description,
               employee |-> employee]]

Date(year, month, day) == [year |-> year, month |-> month, day |-> day]

\* The state after the create requests reqs, each without upload, were served
\* one after the other from the state in out.
RECURSIVE Created(_, _)
Created(reqs, out) ==
    IF reqs = <<>> THEN out
    ELSE Created(Tail(reqs),
                 CreateExpense(out.expenses, InitCategory, InitUsers, out.files, out.uuids,
                               Head(reqs).user_id, ParsePayload(Head(reqs).body.data),
                               Null, "none", 0))

\* The index sequences of length at most len over 1..m whose entries grow by
\* at least step: step 0 picks multisets, step 1 picks sets.
RECURSIVE Picks(_, _, _)
Picks(m, len, step) ==
    IF len = 0 THEN {<<>>}
    ELSE LET shorter == Picks(m, len - 1, step)
         IN  shorter \cup
             UNION {{Append(s, j) :
                        j \in (IF s = <<>> THEN 1 ELSE s[Len(s)] + step) .. m}
                    : s \in {x \in shorter : Len(x) = len - 1}}

\* The stores that hold the expenses of some pick of at most len of reqs.
InitStore(reqs, len, step) ==
    /\ category = InitCategory
    /\ users = InitUsers
    /\ resp = NoResp
    /\ sessions = <<>>
    /\ \E pick \in Picks(Len(reqs), len, step) :
        LET out == Created([n \in 1 .. Len(pick) |-> reqs[pick[n]]],
                           Outcome(Null, <<>>, {}, 0, Null))
        IN  /\ expenses = out.expenses
            /\ files = out.files
            /\ uuids = out.uuids

\* ---------------------------------- specification: create, read, update, delete

Malformed == [json |-> FALSE, data |-> Null]

FullBody ==
    Body(J("c1"), J(<<"L", "u">>), J(Date(2024, 9, 18)), J(50000), J(TRUE),
         J(<<"a", " ", "b">>), J(<<"A", "l">>))

MinimalBody ==
    Body(J("c2"), J(<<"T", "x", "i">>), J(Date(2023, 1, 1)), J(4), Absent, Absent, Absent)

\* body with member field set to value
With(body, field, value) == [body EXCEPT !.data[field] = value]

\* Bodies that are no JSON or break a constraint of a field.
InvalidBodies(body) ==
    {Malformed,
     With(body, "subject", J(<<"L">>)),
     With(body, "amount", J(0)),
     With(body, "description", J(<<"a">>)),
     With(body, "employee", J(<<"A">>)),
     With(body, "employee", J(<<"7", "l">>))}

CreateBodies == {FullBody, MinimalBody} \cup InvalidBodies(FullBody)

\* Every member present with a new value.
FullUpdate ==
    Body(J("c2"), J(<<"N", "e", "w">>), J(Date(2024, 9, 20)), J(75000), J(FALSE),
         J(<<"c", " ", "d">>), J(<<"B", "o">>))

\* Only the required members.
RequiredOnlyUpdate ==
    Body(J("c2"), J(<<"N", "e", "w">>), J(Date(2024, 9, 20)), J(75000),
         Absent, Absent, Absent)

\* The optional text members null.
NullTextUpdate ==
    Body(J("c1"), J(<<"L", "u">>), J(Date(2024, 9, 18)), J(50000), J(TRUE), Null, Null)

\* Only the subject.
SubjectOnlyUpdate ==
    Body(Absent, J(<<"N", "e", "w">>), Absent, Absent, Absent, Absent, Absent)

UpdateBodies ==
    {FullUpdate, RequiredOnlyUpdate, NullTextUpdate, SubjectOnlyUpdate}
        \cup InvalidBodies(FullUpdate)

\* The ids a request can name.
RequestIds == 1 .. MaxUuids

NoUpload == {Null, J([filename |-> <<>>])}

Create == CreateExpenseEndpoint(CreateBodies, NoUpload, {"none"}, {0})
Update == UpdateExpenseEndpoint(RequestIds, UpdateBodies, NoUpload, {"none"}, {1})
Delete == DeleteExpenseEndpoint(RequestIds, {"none"})
Get == GetExpenseEndpoint(RequestIds)

Next == Create \/ Update \/ Delete \/ Get \/ Return

Spec == Init /\ [][Next]_vars

\* ------------------------------------------- specification: general summary

SummaryYears == {2023, 2024}
SummaryAmounts == <<100000, 4>>

\* One valid create request per year, month and amount.
SummaryRequests ==
    [n \in 1 .. 48 |->
        [user_id |-> "u1",
         body |-> Body(J("c1"), J(<<"T", "x">>),
                       J(Date(2023 + ((n - 1) \div 24), (((n - 1) % 24) \div 2) + 1, 15)),
                       J(SummaryAmounts[((n - 1) % 2) + 1]),
                       Absent, Absent, Absent)]]

\* What datetime.now() can read.
Clocks == {[year |-> 2024, month |-> m] : m \in 1 .. 12}

YearParams == {Null, J(2022), J(2023), J(2024)}

InitSummary == InitStore(SummaryRequests, MaxExpenses, 0)

SummaryGeneral == GetGeneralSummaryEndpoint(YearParams, Clocks)
SummaryByCategory == GetExpensesByCategoryEndpoint(YearParams)

NextSummary == SummaryGeneral \/ SummaryByCategory \/ Return

SpecSummary == InitSummary /\ [][NextSummary]_vars

\* ------------------------------------------------ specification: rollups

\* Rows a store of the rollup specification may hold.
MaxRollupRows == 7

\* Create requests over six months of one year, two of them on a date or in
\* a month another one has, and one of the year before; two users, two
\* categories.
RollupRequest(user_id, category_id, date, amount) ==
    [user_id |-> user_id,
     body |-> Body(J(category_id), J(<<"T", "x">>), J(date), J(amount),
                   Absent, Absent, Absent)]

RollupRequests ==
    <<RollupRequest("u1", "c1", Date(2024, 7, 1), 100000),
      RollupRequest("u2", "c2", Date(2024, 8, 1), 200000),
      RollupRequest("u1", "c1", Date(2024, 9, 1), 150000),
      RollupRequest("u2", "c1", Date(2024, 10, 1), 300000),
      RollupRequest("u1", "c2", Date(2024, 11, 1), 250000),
      RollupRequest("u2", "c1", Date(2024, 12, 1), 50000),
      RollupRequest("u1", "c2", Date(2024, 12, 15), 4),
      RollupRequest("u2", "c1", Date(2023, 12, 1), 100000),
      RollupRequest("u2", "c2", Date(2024, 7, 1), 4)>>

RollupYears == {2022, 2023, 2024}

InitRollup == InitStore(RollupRequests, MaxRollupRows, 1)

RollupLast5Months == GetLast5MonthsSummaryEndpoint(RollupYears)
RollupGeneral == GetGeneralSummaryEndpoint(YearParams, Clocks)

NextRollup == RollupLast5Months \/ RollupGeneral \/ Return

SpecRollup == InitRollup /\ [][NextRollup]_vars

\* ------------------------------------------------- claims: general summary

\* The sum of the amounts of the stored expenses ids.
RECURSIVE SumAmounts(_)
SumAmounts(ids) ==
    IF ids = {} THEN 0
    ELSE LET i == Max(ids) IN expenses[i].amount + SumAmounts(ids \ {i})

\* The stored expenses dated in one of months of year.
Dated(year, months) ==
    {i \in DOMAIN expenses :
        /\ expenses[i].expense_date.year = year
        /\ expenses[i].expense_date.month \in months}

\* The request being answered is a general summary that succeeded.
IsSummary == resp.op = "general_summary" /\ resp.status = 200

Quarters == {1 .. 3, 4 .. 6, 7 .. 9, 10 .. 12}
QuarterOf(month) == CHOOSE q \in Quarters : month \in q
QuarterBefore(q) ==
    IF q = 1 .. 3 THEN 10 .. 12 ELSE {m - 3 : m \in q}

\* C1 as stated: this_month equals the sum of the amounts of the expenses of
\* the requested year dated in the current month number.
C1_ThisMonthExact ==
    IsSummary =>
        resp.body.summary.this_month =
            SumAmounts(Dated(resp.body.year, {resp.body.now.month}))

\* C1 amended: this_month equals that sum rounded to two decimal places,
\* also when the requested year is not the current year.
C1_ThisMonth ==
    IsSummary =>
        resp.body.summary.this_month =
            Round2(SumAmounts(Dated(resp.body.year, {resp.body.now.month})))

\* A past year is summarised and has an expense in the current month number.
C1_Witness ==
    /\ IsSummary
    /\ resp.body.year # resp.body.now.year
    /\ resp.body.summary.this_month > 0

\* The year and month C2 calls last month.
C2_Year == IF resp.body.now.month = 1 THEN resp.body.now.year - 1 ELSE resp.body.year
C2_Month == IF resp.body.now.month = 1 THEN 12 ELSE resp.body.now.month - 1

C3_Year ==
    IF QuarterOf(resp.body.now.month) = 1 .. 3
    THEN resp.body.now.year - 1 ELSE resp.body.now.year
C3_Months == QuarterBefore(QuarterOf(resp.body.now.month))

C4_ThisQuarterExact ==
    IsSummary =>
        resp.body.summary.this_quarter =
            SumAmounts(Dated(resp.body.year, QuarterOf(resp.body.now.month)))

\* C4 amended: this_quarter is that sum rounded to two decimal places; the
\* current quarter ((current_month - 1) div 3) + 1 is in 1..4 and its range
\* of months is the one of 1-3, 4-6, 7-9, 10-12 that holds the current month.
C4_ThisQuarter ==
    IsSummary =>
        LET month == resp.body.now.month
            quarter == CurrentQuarter(month)
        IN  /\ resp.body.summary.this_quarter =
                    Round2(SumAmounts(Dated(resp.body.year, QuarterOf(month))))
            /\ quarter = ((month - 1) \div 3) + 1
            /\ quarter \in 1 .. 4
            /\ QuarterMonths(quarter) \in Quarters
            /\ month \in QuarterMonths(quarter)

\* The summary counts, in this_quarter, an expense of another month than the
\* current one.
C4_Witness ==
    /\ IsSummary
    /\ resp.body.summary.this_quarter > resp.body.summary.this_month
    /\ resp.body.now.month \in 10 .. 12

\* A general summary was asked for an explicit year that has no expense.
C6_Case ==
    /\ resp.op = "general_summary"
    /\ IsVal(resp.req.year)
    /\ Dated(resp.req.year.v, 1 .. 12) = {}

\* C6: a general summary asked for an explicit year without expense is
\* answered 400 when other years have data, 404 when the store is empty,
\* never 500, and get_general_summary_data is not called.
C6_NoDataYear ==
    C6_Case =>
        /\ resp.status = IF DOMAIN expenses = {} THEN 404 ELSE 400
        /\ ~InSeq("get_general_summary_data", resp.calls)

C6_Witness == C6_Case /\ DOMAIN expenses # {} /\ resp.status = 400

\* C7: GET /expenses/by-category with an explicit year that is not among the
\* available years is answered 400.
C7_ByCategoryNoDataYear ==
    (/\ resp.op = "by_category"
     /\ IsVal(resp.req.year)
     /\ DOMAIN expenses # {}
     /\ Dated(resp.req.year.v, 1 .. 12) = {})
        => resp.status = 400

MonthsWithData(year) == {m \in 1 .. 12 : Dated(year, {m}) # {}}

\* How many months of S come after m.
MonthsAfter(S, m) == Cardinality({x \in S : x > m})

IsLast5 == resp.op = "last_5_months"

\* C10: the rollup of a year has one entry per month with data, the 5 highest
\* months at most, in descending month order, each with the sum of all the
\* expenses of its month: min(5, k) entries for k months with data.
C10_Last5Months ==
    IsLast5 =>
        LET months == MonthsWithData(resp.req.year.v)
            k == Cardinality(months)
        IN  IF resp.status # 200 THEN k = 0
            ELSE LET rows == resp.body.rows
                 IN  /\ Len(rows) = IF k < 5 THEN k ELSE 5
                     /\ \A n \in 1 .. Len(rows) :
                            \E m \in months :
                                /\ MonthsAfter(months, m) = n - 1
                                /\ rows[n].month = MonthAbbr(m)
                                /\ rows[n].amount =
                                        SumAmounts(Dated(resp.req.year.v, {m}))

\* Six months have data, one of them on two days: five entries come back.
C10_Witness ==
    /\ IsLast5
    /\ resp.status = 200
    /\ Cardinality(MonthsWithData(resp.req.year.v)) = 6
    /\ Len(resp.body.rows) = 5
    /\ \E i, j \in Dated(resp.req.year.v, {12}) :
            expenses[i].expense_date.day # expenses[j].expense_date.day

\* ------------------------------------------------ claims: create and update

\* The fields of an expense a payload sets.
PayloadFields ==
    {"category_id", "subject", "expense_date", "amount", "reimbursable",
     "description", "employee"}

\* The value the member of a payload gives the column field.
ColumnValue(field, member) ==
    IF field \in {"description", "employee"} THEN member ELSE member.v

\* C8: after a successful update, every field the payload leaves absent or
\* null keeps the value it had before the update, and every other field
\* holds the payload's value.
C8_PartialUpdate ==
    [][(resp'.op = "update" /\ resp'.status = 200) =>
            LET id == resp'.req.expense_id
                data == resp'.req.body.data
            IN  \A field \in PayloadFields :
                    IF IsVal(data[field])
                    THEN expenses'[id][field] = ColumnValue(field, data[field])
                    ELSE expenses'[id][field] = expenses[id][field]]_vars

\* C9: a create or update whose payload is malformed JSON or violates a field
\* constraint is answered 400 or 422 and leaves the store unchanged.
C9_InvalidPayloadRejected ==
    [][(/\ resp'.op \in {"create", "update"}
        /\ ~IsNull(LoadPayload(resp'.req.body)))
            => /\ resp'.status \in {400, 422}
               /\ expenses' = expenses
               /\ files' = files]_vars

\* -------------------------------------------- specification: category rollup

NextCategory == GetExpensesByCategoryEndpoint(YearParams) \/ Return

\* Stores of expenses of two categories and two years.
SpecCategory == InitRollup /\ [][NextCategory]_vars

\* ------------------------------------------------- claims: category rollup

\* The stored expenses of category c dated in year.
OfCategoryIn(c, year) ==
    {i \in DOMAIN expenses :
        expenses[i].category_id = c /\ expenses[i].expense_date.year = year}

\* The request being answered is a category rollup that succeeded.
IsRollup == resp.op = "by_category" /\ resp.status = 200

\* C11: the category rollup of a year has exactly one row per category with
\* an expense in that year, carrying the sum of the category's expenses of
\* the year; no row for a category without one; rows in non-increasing order
\* of amount.
C11_CategoryRollup ==
    IsRollup =>
        LET rows == resp.body.rows
            year == resp.body.year
        IN  /\ \A c \in DOMAIN category :
                    LET at == {n \in 1 .. Len(rows) : rows[n].category = category[c].name}
                    IN  IF OfCategoryIn(c, year) = {} THEN at = {}
                        ELSE /\ Cardinality(at) = 1
                             /\ \A n \in at :
                                    rows[n].amount = SumAmounts(OfCategoryIn(c, year))
            /\ \A n \in 1 .. Len(rows) :
                    \E c \in DOMAIN category : rows[n].category = category[c].name
            /\ \A m, n \in 1 .. Len(rows) : m < n => rows[m].amount >= rows[n].amount

\* A rollup of two rows of different amounts, one summing several expenses,
\* over a store that also holds an expense of another year.
C11_Witness ==
    /\ IsRollup
    /\ Len(resp.body.rows) = 2
    /\ resp.body.rows[1].amount > resp.body.rows[2].amount
    /\ \E c \in DOMAIN category : Cardinality(OfCategoryIn(c, resp.body.year)) >= 2
    /\ \E i \in DOMAIN expenses : expenses[i].expense_date.year # resp.body.year

\* ------------------------------------------- specification: available years

AvailableYearsExcepts == <<Except("Exception", 500)>>

\* get_available_years_endpoint: GET /expenses/available-years
GetAvailableYearsEndpoint ==
    /\ resp = NoResp
    /\ resp' = Success("available_years", Null, 200, <<"get_available_years">>,
                       [years |-> GetAvailableYears(expenses)])
    /\ UNCHANGED <<expenses, category, users, files, uuids, sessions>>

\* One valid payload per year, for create and for update.
YearBodies ==
    {Body(J("c1"), J(<<"T", "x">>), J(Date(year, 1, 1)), J(100000), Absent, Absent, Absent)
        : year \in {2022, 2023, 2024}}

NextYears ==
    \/ CreateExpenseEndpoint(YearBodies, {Null}, {"none"}, {0})
    \/ UpdateExpenseEndpoint(RequestIds, YearBodies, {Null}, {"none"}, {1})
    \/ DeleteExpenseEndpoint(RequestIds, {"none"})
    \/ GetAvailableYearsEndpoint
    \/ Return

SpecYears == Init /\ [][NextYears]_vars

\* ------------------------------------------------- claims: available years

\* The request being answered is a list of the available years.
IsYears == resp.op = "available_years" /\ resp.status = 200

\* C12: whatever creates, updates and deletes came before, the available
\* years are exactly the years of the dates of the stored expenses, of all
\* users, each once, in strictly descending order.
C12_AvailableYears ==
    IsYears =>
        LET years == resp.body.years
        IN  /\ {years[n] : n \in 1 .. Len(years)}
                    = {expenses[i].expense_date.year : i \in DOMAIN expenses}
            /\ \A m, n \in 1 .. Len(years) : m < n => years[m] > years[n]

\* Two years are listed for expenses of two users, after an expense was
\* deleted and another one re-dated.
C12_Witness ==
    /\ IsYears
    /\ Len(resp.body.years) = 2
    /\ uuids > Cardinality(DOMAIN expenses)
    /\ \E i \in DOMAIN expenses : expenses[i].updated_at = 1
    /\ \E i, j \in DOMAIN expenses : expenses[i].user_id # expenses[j].user_id

\* ----------------------------------- specification: expenses with attachments

\* No upload, or an uploaded file named "a.p".
AttachmentImages == {Null, J([filename |-> <<"a", ".", "p">>])}

NextAttachments ==
    \/ CreateExpenseEndpoint({FullBody, MinimalBody}, AttachmentImages, {"none"}, {0})
    \/ UpdateExpenseEndpoint(RequestIds, {FullUpdate, NullTextUpdate}, AttachmentImages,
                             {"none"}, {1})
    \/ DeleteExpenseEndpoint(RequestIds, {"none"})
    \/ GetExpenseEndpoint(RequestIds)
    \/ Return

SpecAttachments == Init /\ [][NextAttachments]_vars

\* ------------------------------------------------- claims: create round trip

\* C13: the record a successful create returns carries the payload's
\* category, subject, date, amount, reimbursable flag (false when absent),
\* description and employee (null when absent) and the authenticated user as
\* owner, and is the row stored under its id; a successful get returns the
\* row stored under the id; and no request but an update or a delete changes
\* a stored row.  So a get that follows the create returns the payload.
C13_CreateRoundTrip ==
    [][/\ (resp'.op = "create" /\ resp'.status = 201) =>
            LET data == resp'.req.body.data
                row == resp'.body.row
                id == resp'.body.expenses_id
            IN  /\ row.category_id = data.category_id.v
                /\ row.subject = data.subject.v
                /\ row.expense_date = data.expense_date.v
                /\ row.amount = data.amount.v
                /\ row.reimbursable =
                        (IF IsVal(data.reimbursable) THEN data.reimbursable.v ELSE FALSE)
                /\ row.description =
                        (IF IsVal(data.description) THEN data.description ELSE Null)
                /\ row.employee = (IF IsVal(data.employee) THEN data.employee ELSE Null)
                /\ row.user_id = resp'.req.user_id
                /\ id \notin DOMAIN expenses
                /\ id \in DOMAIN expenses'
                /\ expenses'[id] = row
       /\ (resp'.op = "get" /\ resp'.status = 200) =>
            /\ resp'.body.expenses_id = resp'.req.expense_id
            /\ resp'.body.row = expenses[resp'.req.expense_id]
       /\ resp'.op \notin {"update", "delete"} =>
            \A i \in DOMAIN expenses : i \in DOMAIN expenses' /\ expenses'[i] = expenses[i]]_vars

\* A get returns an expense of the second user that was created without the
\* optional members and with an upload, and never updated.
C13_Witness ==
    /\ resp.op = "get"
    /\ resp.status = 200
    /\ resp.body.row.user_id = "u2"
    /\ resp.body.row.updated_at = 0
    /\ resp.body.row.reimbursable = FALSE
    /\ IsNull(resp.body.row.description)
    /\ IsVal(resp.body.row.invoice_image)

\* ------------------------------------- specification: delete with attachment

\* Every expense is created with an uploaded invoice image.
NextDelete ==
    \/ CreateExpenseEndpoint({FullBody, MinimalBody}, {J([filename |-> <<"a", ".", "p">>])},
                             {"none"}, {0})
    \/ UpdateExpenseEndpoint(RequestIds, {FullUpdate}, AttachmentImages, {"none"}, {1})
    \/ DeleteExpenseEndpoint(RequestIds, {"none"})
    \/ GetExpenseEndpoint(RequestIds)
    \/ Return

SpecDelete == Init /\ [][NextDelete]_vars

\* ------------------------------------------------------------ claims: delete

\* C14: a successful delete removes the row of the expense and the file of
\* its attachment; an id that was drawn and is not stored is never stored
\* again and a file that was removed never returns; and a get, update or
\* delete naming an id that is not stored is answered 404.
C14_DeleteRemoves ==
    [][/\ (resp'.op = "delete" /\ resp'.status = 200) =>
            LET id == resp'.req.expense_id
            IN  /\ id \in DOMAIN expenses
                /\ id \notin DOMAIN expenses'
                /\ IsVal(expenses[id].invoice_image) =>
                        expenses[id].invoice_image.v \notin files'
       /\ \A id \in 1 .. uuids : id \notin DOMAIN expenses => id \notin DOMAIN expenses'
       /\ \A id \in 1 .. uuids, image \in AttachmentImages :
            (IsVal(image) /\ ImageFilename(id, image) \notin files)
                => ImageFilename(id, image) \notin files'
       /\ (/\ resp'.op \in {"get", "update", "delete"}
           /\ resp'.req.expense_id \notin DOMAIN expenses)
            => resp'.status = 404]_vars

\* The only expense created so far, which had an attachment, was deleted: no
\* row and no file is left, and a later get of its id is answered 404.
C14_Witness ==
    /\ resp.op = "get"
    /\ resp.status = 404
    /\ resp.req.expense_id = 2
    /\ uuids = 2
    /\ DOMAIN expenses = {}
    /\ files = {}

\* --------------------------------------------------------- claims: not found

\* The request being answered is a get, a delete or an update with a valid
\* payload, naming an id that is not stored.
NamesNoExpense(response, tbl) ==
    /\ response.op \in {"get", "update", "delete"}
    /\ response.req.expense_id \notin DOMAIN tbl
    /\ response.op = "update" => IsNull(LoadPayload(response.req.body))

\* C15: a get, an update with a valid payload, or a delete, on an id that
\* matches no stored expense, is answered 404 and changes no stored row and
\* no stored file.
C15_NotFound ==
    [][NamesNoExpense(resp', expenses) =>
            /\ resp'.status = 404
            /\ expenses' = expenses
            /\ files' = files]_vars

\* An update with a valid payload and an upload was answered 404 while a row
\* and a file are stored.
C15_Witness ==
    /\ NamesNoExpense(resp, expenses)
    /\ resp.op = "update"
    /\ resp.req.upload
    /\ resp.status = 404
    /\ DOMAIN expenses # {}
    /\ files # {}

\* ------------------------------------------------------------ list endpoints

\* str.lower() and SQL lower(): each upper-case letter becomes its lower-case
\* letter, every other character stays.
Lower(s) ==
    LET upper == <<"A", "B", "C", "D", "E", "F", "G", "H", "I", "J", "K", "L", "M",
                   "N", "O", "P", "Q", "R", "S", "T", "U", "V", "W", "X", "Y", "Z">>
        lower == <<"a", "b", "c", "d", "e", "f", "g", "h", "i", "j", "k", "l", "m",
                   "n", "o", "p", "q", "r", "s", "t", "u", "v", "w", "x", "y", "z">>
        at(c) == {n \in 1 .. Len(upper) : upper[n] = c}
    IN  [n \in 1 .. Len(s) |-> IF at(s[n]) = {} THEN s[n] ELSE lower[Max(at(s[n]))]]

\* s LIKE pattern: "%" stands for any run of characters, "_" for any one
\* character, a backslash makes the character after it stand for itself.
RECURSIVE Like(_, _)
Like(s, pattern) ==
    IF pattern = <<>> THEN s = <<>>
    ELSE IF Head(pattern) = "%"
    THEN Like(s, Tail(pattern)) \/ (s # <<>> /\ Like(Tail(s), pattern))
    ELSE IF Head(pattern) = "_"
    THEN s # <<>> /\ Like(Tail(s), Tail(pattern))
    ELSE IF Head(pattern) = "\\" /\ Len(pattern) >= 2
    THEN s # <<>> /\ Head(s) = pattern[2] /\ Like(Tail(s), Tail(Tail(pattern)))
    ELSE s # <<>> /\ Head(s) = Head(pattern) /\ Like(Tail(s), Tail(pattern))

\* The filter of get_expenses: without a search string, or with an empty
\* one, every row; else the rows whose lowered subject or lowered employee
\* is LIKE %search%.  A NULL employee makes its side of the OR unknown.
WhereSearch(tbl, search) ==
    IF IsNull(search) \/ search.v = <<>> THEN DOMAIN tbl
    ELSE LET pattern == <<"%">> \o Lower(search.v) \o <<"%">>
         IN  {i \in DOMAIN tbl :
                \/ Like(Lower(tbl[i].subject), Lower(pattern))
                \/ /\ IsVal(tbl[i].employee)
                   /\ Like(Lower(tbl[i].employee.v), Lower(pattern))}

\* The rows in any order, as a query without ORDER BY gives them.
OrderByNothing(tbl, ids, descending) == Orderings(ids)

\* ORDER BY expense_date: the orders of the rows ids the database can give;
\* rows of one date come in any order.
RECURSIVE OrderByDate(_, _, _)
OrderByDate(tbl, ids, descending) ==
    IF ids = {} THEN {<<>>}
    ELSE LET first == {i \in ids : \A j \in ids :
                            IF descending
                            THEN ~DateLess(tbl[i].expense_date, tbl[j].expense_date)
                            ELSE ~DateLess(tbl[j].expense_date, tbl[i].expense_date)}
         IN  UNION {{<<i>> \o rest : rest \in OrderByDate(tbl, ids \ {i}, descending)}
                        : i \in first}

\* paginate(db, query, params): the page of the ordered rows.
Paginate(tbl, order, params) ==
    LET from == (params.page - 1) * params.size + 1
        to == Min({params.page * params.size, Len(order)})
    IN  [items |-> [n \in 1 .. (IF to < from THEN 0 ELSE to - from + 1) |->
                        [expenses_id |-> order[from + n - 1],
                         row |-> tbl[order[from + n - 1]]]],
         total |-> Len(order), page |-> params.page, size |-> params.size]

\* get_expenses(db, params, search, sort_order): the pages it can return.
GetExpenses(tbl, params, search, sort_order) ==
    {Paginate(tbl, order, params) :
        order \in OrderByDate(tbl, WhereSearch(tbl, search), sort_order # "asc")}

\* list_expenses_endpoint: GET /expenses.  A sort_order that is not given
\* is "desc".
ListExpensesEndpoint(Searches, Orders, Pages, Sizes) ==
    /\ resp = NoResp
    /\ \E search \in Searches, order \in Orders, page \in Pages, size \in Sizes :
        resp' \in {Success("list",
                           [search |-> search, sort_order |-> order,
                            page |-> page, size |-> size],
                           200, <<"get_expenses">>, result)
                    : result \in GetExpenses(expenses, [page |-> page, size |-> size],
                                             search,
                                             IF IsVal(order) THEN order.v ELSE "desc")}
    /\ UNCHANGED <<expenses, category, users, files, uuids, sessions>>

\* The except clauses with no clause that lets an HTTPException pass.
AllExceptsNoReraise == <<Except("Exception", 500)>>

AllExcepts == <<ExceptReraise("HTTPException"), Except("Exception", 500)>>

\* fetch_all_expenses: GET /expenses/all.  The query states no order.
GetAllExpensesEndpoint ==
    /\ resp = NoResp
    /\ resp' \in
        IF DOMAIN expenses = {}
        THEN {Failure("all", Null, AllExcepts, HTTPException(404, "No expenses found"),
                      <<"get_all_expenses">>)}
        ELSE {Success("all", Null, 200, <<"get_all_expenses">>,
                      [n \in 1 .. Len(order) |->
                            [expenses_id |-> order[n], row |-> expenses[order[n]]]])
                : order \in Orderings(DOMAIN expenses)}
    /\ UNCHANGED <<expenses, category, users, files, uuids, sessions>>

\* The rows the recent query is limited to.
RecentLimit == 5

\* The first rows of the query ordered by date ascending.
GetRecentExpensesOldestFirst(tbl, cat, usr) ==
    {[n \in 1 .. Min({RecentLimit, Len(order)}) |->
            [subject |-> tbl[order[n]].subject,
             amount |-> tbl[order[n]].amount,
             added_by |-> usr[tbl[order[n]].user_id].username,
             category_name |-> cat[tbl[order[n]].category_id].name]]
        : order \in OrderByDate(tbl, DOMAIN tbl, FALSE)}

\* get_recent_expenses(db): the lists it can return.
GetRecentExpenses(tbl, cat, usr) ==
    LET joined == {i \in DOMAIN tbl :
                        tbl[i].user_id \in DOMAIN usr /\ tbl[i].category_id \in DOMAIN cat}
    IN  {[n \in 1 .. Min({RecentLimit, Len(order)}) |->
                [subject |-> tbl[order[n]].subject,
                 amount |-> tbl[order[n]].amount,
                 added_by |-> usr[tbl[order[n]].user_id].username,
                 category_name |-> cat[tbl[order[n]].category_id].name]]
            : order \in OrderByDate(tbl, joined, TRUE)}

RecentExcepts == <<ExceptReraise("HTTPException"), Except("Exception", 500)>>

\* get_recent_expenses_endpoint: GET /expenses/recent
GetRecentExpensesEndpoint ==
    /\ resp = NoResp
    /\ resp' \in
        {IF recent_expenses = <<>>
         THEN Failure("recent", Null, RecentExcepts,
                      HTTPException(404, "No recent expenses found"),
                      <<"get_recent_expenses">>)
         ELSE Success("recent", Null, 200, <<"get_recent_expenses">>, recent_expenses)
            : recent_expenses \in GetRecentExpenses(expenses, category, users)}
    /\ UNCHANGED <<expenses, category, users, files, uuids, sessions>>

\* ------------------------------------------------------ specification: lists

\* Rows a store of the list specification may hold.
MaxListRows == 3

\* Create requests with and without an employee, two on one date, one with
\* an underscore in the subject.
ListRequests ==
    <<[user_id |-> "u1",
       body |-> Body(J("c1"), J(<<"L", "u">>), J(Date(2024, 9, 18)), J(50000),
                     Absent, Absent, J(<<"A", "l">>))],
      [user_id |-> "u2",
       body |-> Body(J("c2"), J(<<"T", "x">>), J(Date(2023, 1, 1)), J(4),
                     Absent, Absent, Absent)],
      [user_id |-> "u1",
       body |-> Body(J("c1"), J(<<"a", "_">>), J(Date(2024, 9, 18)), J(100000),
                     Absent, Absent, J(<<"l", "U">>))],
      [user_id |-> "u2",
       body |-> Body(J("c1"), J(<<"A", "L">>), J(Date(2024, 9, 20)), J(75000),
                     Absent, Absent, Absent)]>>

\* No search string, the empty one, and strings with and without the
\* characters LIKE gives a meaning to.
Searches ==
    {Null, J(<<>>), J(<<"l">>), J(<<"L", "U">>), J(<<"x">>), J(<<"z">>),
     J(<<"_">>), J(<<"%">>), J(<<"a", "_">>)}

NextList ==
    \/ ListExpensesEndpoint(Searches, {Null, J("asc"), J("desc")}, {1, 2}, {1, 2, 50})
    \/ GetAllExpensesEndpoint
    \/ GetRecentExpensesEndpoint
    \/ Return

InitList == InitStore(ListRequests, MaxListRows, 1)

SpecList == InitList /\ [][NextList]_vars

\* ------------------------------------------- specification: recent expenses

NextRecent == GetRecentExpensesEndpoint \/ Return

\* Stores of up to MaxRollupRows expenses, two of them on one date.
SpecRecent == InitRollup /\ [][NextRecent]_vars

\* -------------------------------------------------------------- claims: list

\* sub occurs in s as a run of consecutive characters.
Contains(s, sub) ==
    \E k \in 0 .. (Len(s) - Len(sub)) : SubSeq(s, k + 1, k + Len(sub)) = sub

\* The ids of the items of the page being returned.
ItemIds == {resp.body.items[n].expenses_id : n \in 1 .. Len(resp.body.items)}

\* The request being answered is a list that succeeded.
IsList == resp.op = "list" /\ resp.status = 200

\* C16: a list with a search string returns exactly the stored expenses whose
\* subject or employee name contains the string, compared without regard to
\* case, an expense without employee name being returned when its subject
\* matches; a list without a search string returns every expense.  (Stated
\* for the first page with a size no smaller than the store.)
C16_SearchSubstring ==
    (IsList /\ resp.req.page = 1 /\ resp.req.size >= Cardinality(DOMAIN expenses)) =>
        ItemIds =
            IF IsNull(resp.req.search) THEN DOMAIN expenses
            ELSE {i \in DOMAIN expenses :
                    \/ Contains(Lower(expenses[i].subject), Lower(resp.req.search.v))
                    \/ /\ IsVal(expenses[i].employee)
                       /\ Contains(Lower(expenses[i].employee.v),
                                   Lower(resp.req.search.v))}

\* a comes before b, or with b, in the order the request asks for: by date,
\* ascending for sort_order "asc", descending for "desc" and for none.
InRequestedOrder(a, b) ==
    IF resp.req.sort_order = J("asc")
    THEN ~DateLess(b.expense_date, a.expense_date)
    ELSE ~DateLess(a.expense_date, b.expense_date)

\* C17: the items of a list are stored expenses in the order of their dates,
\* descending unless sort_order is "asc"; page 1 of size k holds the first k
\* of the expenses the search selects, or all when there are fewer: no
\* selected expense left out comes strictly before an item.
C17_DateOrderAndFirstPage ==
    IsList =>
        LET items == resp.body.items
            selected == WhereSearch(expenses, resp.req.search)
        IN  /\ \A n \in 1 .. Len(items) :
                    /\ items[n].expenses_id \in selected
                    /\ items[n].row = expenses[items[n].expenses_id]
            /\ Cardinality(ItemIds) = Len(items)
            /\ \A m, n \in 1 .. Len(items) :
                    m < n => InRequestedOrder(items[m].row, items[n].row)
            /\ resp.req.page = 1 =>
                    /\ Len(items) = Min({resp.req.size, Cardinality(selected)})
                    /\ \A i \in ItemIds, j \in selected \ ItemIds :
                            InRequestedOrder(expenses[i], expenses[j])

\* The first page of size 2 of three expenses in ascending order: two items
\* of different dates, the expense left out being of the latest date.
C17_Witness ==
    /\ IsList
    /\ resp.req.sort_order = J("asc")
    /\ resp.req.page = 1
    /\ resp.req.size = 2
    /\ resp.body.total = 3
    /\ Len(resp.body.items) = 2
    /\ DateLess(resp.body.items[1].row.expense_date, resp.body.items[2].row.expense_date)
    /\ \E j \in DOMAIN expenses \ ItemIds :
            DateLess(resp.body.items[2].row.expense_date, expenses[j].expense_date)

\* ------------------------------------------------------------ claims: recent

\* The sequences of k different elements of S.
RECURSIVE Arrangements(_, _)
Arrangements(S, k) ==
    IF k = 0 THEN {<<>>}
    ELSE UNION {{<<x>> \o rest : rest \in Arrangements(S \ {x}, k - 1)} : x \in S}

\* What a recent entry says of the stored expense i.
RecentEntry(i) ==
    [subject |-> expenses[i].subject,
     amount |-> expenses[i].amount,
     added_by |-> users[expenses[i].user_id].username,
     category_name |-> category[expenses[i].category_id].name]

\* C18: with n >= 1 expenses stored, of whatever users, recent returns
\* min(5, n) entries; they are those of different stored expenses in
\* descending order of date, each with the expense's subject and amount, its
\* owner's username and its category's name; and no stored expense outside
\* them has a later date than one of them.
C18_RecentExpenses ==
    (resp.op = "recent" /\ DOMAIN expenses # {}) =>
        /\ resp.status = 200
        /\ Len(resp.body) = Min({5, Cardinality(DOMAIN expenses)})
        /\ \E ids \in Arrangements(DOMAIN expenses, Len(resp.body)) :
            /\ \A n \in 1 .. Len(ids) : resp.body[n] = RecentEntry(ids[n])
            /\ \A m, n \in 1 .. Len(ids) :
                    m < n => ~DateLess(expenses[ids[m]].expense_date,
                                       expenses[ids[n]].expense_date)
            /\ \A n \in 1 .. Len(ids), j \in DOMAIN expenses :
                    (\A m \in 1 .. Len(ids) : ids[m] # j)
                        => ~DateLess(expenses[ids[n]].expense_date,
                                     expenses[j].expense_date)

\* Five entries are returned of seven stored expenses, of both users.
C18_Witness ==
    /\ resp.op = "recent"
    /\ resp.status = 200
    /\ Cardinality(DOMAIN expenses) = 7
    /\ Len(resp.body) = 5
    /\ \E m, n \in 1 .. 5 : resp.body[m].added_by # resp.body[n].added_by

\* ------------------------------------------------------- claims: empty store

\* C19: with no expense stored, GET /expenses/all and GET /expenses/recent
\* are answered 404, not 200 with an empty list and not 500.
C19_EmptyStoreNotFound ==
    (resp.op \in {"all", "recent"} /\ DOMAIN expenses = {}) =>
        /\ resp.status = 404
        /\ IsNull(resp.body)

\* GET /expenses/all was answered 404 with no expense stored.
C19_Witness ==
    /\ resp.op = "all"
    /\ DOMAIN expenses = {}
    /\ resp.status = 404
    /\ resp.raised.class = "HTTPException"

\* ------------------------------------- specification: the summary test fixture

\* The six create requests of test_get_general_summary, the current year
\* being the year of Clocks.
FixtureRequests ==
    <<RollupRequest("u1", "c1", Date(2024, 1, 15), 100000),
      RollupRequest("u1", "c1", Date(2024, 2, 20), 200000),
      RollupRequest("u1", "c1", Date(2024, 3, 25), 150000),
      RollupRequest("u1", "c1", Date(2024, 4, 10), 300000),
      RollupRequest("u1", "c1", Date(2024, 7, 5), 250000),
      RollupRequest("u1", "c1", Date(2024, 8, 15), 50000)>>

\* The stores the test passes through and those of any other part of the
\* fixture.
InitFixture == InitStore(FixtureRequests, Len(FixtureRequests), 1)

NextFixture == GetGeneralSummaryEndpoint({J(2024)}, Clocks) \/ Return

SpecFixture == InitFixture /\ [][NextFixture]_vars

\* ------------------------------------------------- claims: the summary test

\* C20: with the six expenses of the fixture stored, the general summary of
\* the current year is total_spending 1050, this_month 0, last_month 50,
\* this_quarter 300 and last_quarter 300, whatever the current date.
C20_FixtureSummary ==
    (/\ IsSummary
     /\ Cardinality(DOMAIN expenses) = Len(FixtureRequests)
     /\ resp.req.year = J(resp.body.now.year))
        => resp.body.summary =
                [total_spending |-> 1050000, this_month |-> 0, last_month |-> 50000,
                 this_quarter |-> 300000, last_quarter |-> 300000]

\* ------------------------------------------------------------- registration

\* UserCreate(**json) raises no ValidationError: the username has 3 to 80
\* characters; the password has at least 8, with an uppercase letter, a
\* lowercase letter, a digit and a special character.
ValidUserCreate(user) ==
    LET Has(s, chars) == \E n \in 1 .. Len(s) : s[n] \in chars
        upper == {"A", "B", "M", "Z"}
        lower == {"a", "b", "e", "n", "u", "z"}
        special == {"!", "@", "#", "$", "%", "^", "&", "*", "(", ")", ",", ".",
                    "?", "\"", ":", "{", "}", "|", "<", ">"}
    IN  /\ IsVal(user.username)
        /\ Len(user.username.v) >= 3
        /\ Len(user.username.v) <= 80
        /\ IsVal(user.password)
        /\ Len(user.password.v) >= 8
        /\ Has(user.password.v, upper)
        /\ Has(user.password.v, lower)
        /\ Has(user.password.v, Digits)
        /\ Has(user.password.v, special)

\* A users table whose index on username is not unique.
UniqueUsernameNotEnforced(usr, username) == TRUE

\* The unique index ix_users_username admits a new row with this username.
UniqueUsername(usr, username) ==
    \A i \in DOMAIN usr : usr[i].username # username

\* create_user(db, user): the row is inserted with a fresh id, the hash of
\* the password and the active flag set; the insert of a username that is
\* taken raises.
CreateUser(usr, n, user, t) ==
    LET user_id == n + 1
        db_user == [username        |-> user.username.v,
                    hashed_password |-> [hash_of |-> user.password.v],
                    is_active       |-> TRUE,
                    timestamp       |-> t]
    IN  IF ~UniqueUsername(usr, user.username.v)
        THEN [exc |-> Raised("IntegrityError", "duplicate key"), users |-> usr,
              uuids |-> n, value |-> Null]
        ELSE [exc |-> Null, users |-> usr @@ (user_id :> db_user), uuids |-> user_id,
              value |-> [user_id |-> user_id, row |-> db_user]]

\* register_user: POST /register.  A body that fails UserCreate is answered
\* 422 before the handler runs; the handler answers every exception with 500
\* and ErrorMessages.ERROR_CREATING_USER.
RegisterUserEndpoint(Bodies, Times) ==
    /\ resp = NoResp
    /\ \E user \in Bodies, t \in Times :
        LET req == [user |-> user]
        IN  IF ~ValidUserCreate(user)
            THEN /\ resp' = [op |-> "register", req |-> req, status |-> 422,
                             raised |-> Raised("RequestValidationError", "validation error"),
                             calls |-> <<>>, body |-> Null]
                 /\ UNCHANGED <<users, uuids>>
            ELSE /\ uuids + 1 <= MaxUuids
                 /\ LET out == CreateUser(users, uuids, user, t)
                    IN  /\ users' = out.users
                        /\ uuids' = out.uuids
                        /\ resp' =
                            IF IsNull(out.exc)
                            THEN Success("register", req, 200, <<"create_user">>,
                                         [user_id   |-> out.value.user_id,
                                          username  |-> out.value.row.username,
                                          is_active |-> out.value.row.is_active,
                                          timestamp |-> out.value.row.timestamp])
                            ELSE [Failure("register", req, <<Except("Exception", 500)>>,
                                          out.exc, <<"create_user">>)
                                    EXCEPT !.body = [detail |-> "User already exists",
                                                     status_code |-> 500]]
    /\ UNCHANGED <<expenses, category, files, sessions>>

\* ------------------------------------------------ specification: registration

\* The bodies of the registration tests, a second valid password, and bodies
\* that break a constraint or lack the password.
RegisterBodies ==
    LET strong == <<"M", "u", "b", "e", "e", "n", "2", "@">>
        other  == <<"Z", "a", "b", "e", "e", "n", "7", "#">>
        weak   == <<"1", "2", "3">>
        names  == {<<"a", "n", "n">>, <<"b", "e", "n">>, <<"A", "n", "n">>}
    IN  {[username |-> J(u), password |-> J(p)] : u \in names, p \in {strong, other}}
            \cup {[username |-> J(<<>>), password |-> J(strong)],
                  [username |-> J(<<"a", "n", "n">>), password |-> J(weak)],
                  [username |-> J(<<"a", "n", "n">>), password |-> Absent]}

\* No user is registered.
InitRegister ==
    /\ expenses = <<>>
    /\ category = InitCategory
    /\ users = <<>>
    /\ files = {}
    /\ uuids = 0
    /\ resp = NoResp
    /\ sessions = <<>>

NextRegister == RegisterUserEndpoint(RegisterBodies, {0, 1}) \/ Return

SpecRegister == InitRegister /\ [][NextRegister]_vars

\* ------------------------------------------------------ claims: registration

\* The request being answered is a registration with a valid body whose
\* username is that of a row of usr.
RegistersTaken(response, usr) ==
    /\ response.op = "register"
    /\ ValidUserCreate(response.req.user)
    /\ \E i \in DOMAIN usr : usr[i].username = response.req.user.username.v

\* C21: registering a username that is already registered is answered 500
\* with the detail 'User already exists'; the users table is left as it was,
\* and it holds one row with that username.
C21_DuplicateUsername ==
    [][RegistersTaken(resp', users) =>
            /\ resp'.status = 500
            /\ resp'.body = [detail |-> "User already exists", status_code |-> 500]
            /\ users' = users
            /\ Cardinality({i \in DOMAIN users' :
                    users'[i].username = resp'.req.user.username.v}) = 1]_vars

\* A second registration of a username was answered 500 while two users are
\* registered, the request giving another password than the stored one.
C21_Witness ==
    /\ RegistersTaken(resp, users)
    /\ resp.status = 500
    /\ Cardinality(DOMAIN users) = 2
    /\ \E i \in DOMAIN users :
        /\ users[i].username = resp.req.user.username.v
        /\ users[i].hashed_password.hash_of # resp.req.user.password.v

\* ------------------------------------------------- specification: amounts

\* Creates and updates, with and without an upload, whose amount is positive
\* (50, 75, 0.004), zero or negative.
NextAmounts ==
    LET amounts(body) ==
            {body, With(body, "amount", J(0)), With(body, "amount", J(-50000))}
    IN  \/ CreateExpenseEndpoint(amounts(FullBody) \cup {MinimalBody}, AttachmentImages,
                                 {"none"}, {0})
        \/ UpdateExpenseEndpoint(RequestIds, amounts(FullUpdate), AttachmentImages,
                                 {"none"}, {1})
        \/ Return

SpecAmounts == Init /\ [][NextAmounts]_vars

\* ------------------------------------------------------------ claims: amounts

\* The request being answered is a create or an update whose payload holds
\* an amount that is zero or negative.
NotPositive(response) ==
    /\ response.op \in {"create", "update"}
    /\ response.req.body.json
    /\ IsVal(response.req.body.data.amount)
    /\ response.req.body.data.amount.v <= 0

\* C22: after every step the amount of every stored expense is above zero;
\* a create or an update whose payload amount is zero or negative is answered
\* with an error and leaves the stored rows and files as they were.
C22_PositiveAmount ==
    [][/\ \A i \in DOMAIN expenses' : expenses'[i].amount > 0
       /\ NotPositive(resp') =>
            /\ resp'.status >= 400
            /\ expenses' = expenses
            /\ files' = files]_vars

\* An update with an upload and a negative amount, naming a stored expense
\* that has an attachment, was answered with an error.
C22_Witness ==
    /\ NotPositive(resp)
    /\ resp.op = "update"
    /\ resp.req.upload
    /\ resp.req.body.data.amount.v < 0
    /\ resp.status >= 400
    /\ resp.req.expense_id \in DOMAIN expenses
    /\ IsVal(expenses[resp.req.expense_id].invoice_image)
    /\ expenses[resp.req.expense_id].invoice_image.v \in files

\* ------------------------------------- specification: failures of the storage

\* What the file system or the database does to a request: nothing, open()
\* fails, the write to the opened file fails, os.remove fails, the commit
\* fails.
Faults == {"none", "open_error", "write_error", "remove_error", "commit_error"}

\* Creates and updates with and without an upload, and deletes, each under
\* every fault.
NextFaults ==
    \/ CreateExpenseEndpoint({FullBody}, AttachmentImages, Faults, {0})
    \/ UpdateExpenseEndpoint(RequestIds, {FullUpdate}, AttachmentImages, Faults, {1})
    \/ DeleteExpenseEndpoint(RequestIds, Faults)
    \/ Return

SpecFaults == Init /\ [][NextFaults]_vars

\* ------------------------------------------------- claims: storage failures

\* The exception at the end of the `from` chain of exc.
RECURSIVE RootCause(_)
RootCause(exc) ==
    IF "cause" \in DOMAIN exc THEN RootCause(exc.cause) ELSE exc

\* The request being answered is an op whose repository call raised because
\* of one of faults.
FailedBy(response, op, faults) ==
    /\ response.op = op
    /\ ~IsNull(response.raised)
    /\ RootCause(response.raised).detail \in faults

\* The files no stored expense names.
Orphans(tbl, fs) ==
    {f \in fs : \A i \in DOMAIN tbl : tbl[i].invoice_image # J(f)}

\* C23: a create with an attachment whose file cannot be opened or written
\* is answered 500 and stores no row: the table is the same before and after.
C23_WriteFailureStoresNoRow ==
    [][FailedBy(resp', "create", {"open_error", "write_error"}) =>
            /\ resp'.req.upload
            /\ resp'.status = 500
            /\ expenses' = expenses]_vars

\* A create failed on the write of its file while an expense is stored.
C23_Witness ==
    /\ FailedBy(resp, "create", {"write_error"})
    /\ resp.req.upload
    /\ resp.status = 500
    /\ Cardinality(DOMAIN expenses) = 1

\* The request being answered is an update with an upload that names a row
\* of tbl whose invoice image is a file of fs.
ReplacesAttachment(response, tbl, fs) ==
    /\ response.op = "update"
    /\ response.req.upload
    /\ response.req.expense_id \in DOMAIN tbl
    /\ IsVal(tbl[response.req.expense_id].invoice_image)
    /\ tbl[response.req.expense_id].invoice_image.v \in fs

\* C24: an update with an upload of an expense that has an attachment, when
\* it succeeds, leaves the previous file removed, a file under a name not
\* used before stored, the row naming it, and the update timestamp set to the
\* time of the update (the clock reads 0 at creates and 1 at updates).  The
\* removal comes first: when the new file cannot be opened or written the
\* previous file is already gone, and when the removal fails no file has
\* been written.
C24_ReplaceAttachment ==
    [][ReplacesAttachment(resp', expenses, files) =>
        LET id == resp'.req.expense_id
            old == expenses[id].invoice_image.v
        IN  /\ resp'.status = 200 =>
                /\ old \notin files'
                /\ IsVal(expenses'[id].invoice_image)
                /\ expenses'[id].invoice_image.v \in files' \ files
                /\ \A i \in DOMAIN expenses :
                        expenses[i].invoice_image # expenses'[id].invoice_image
                /\ files' = (files \ {old}) \cup {expenses'[id].invoice_image.v}
                /\ expenses'[id].updated_at = 1
            /\ FailedBy(resp', "update", {"open_error", "write_error"}) =>
                old \notin files'
            /\ FailedBy(resp', "update", {"remove_error"}) =>
                files' = files]_vars

\* The expense created first, with an attachment, was updated once with an
\* upload: the third uuid names its file, the only file stored.
C24_Witness ==
    /\ resp.op = "update"
    /\ resp.status = 200
    /\ resp.req.upload
    /\ resp.req.expense_id = 2
    /\ uuids = 3
    /\ 2 \in DOMAIN expenses
    /\ IsVal(expenses[2].invoice_image)
    /\ expenses[2].invoice_image.v.uuid = 3
    /\ files = {expenses[2].invoice_image.v}
    /\ expenses[2].updated_at = 1

\* C25: a delete of an expense with an attachment whose file cannot be
\* removed is answered 500; the row is stored afterwards as it was, and so
\* is the file.
C25_RemoveFailureKeepsRow ==
    [][FailedBy(resp', "delete", {"remove_error"}) =>
            /\ resp'.status = 500
            /\ resp'.req.expense_id \in DOMAIN expenses'
            /\ expenses' = expenses
            /\ IsVal(expenses'[resp'.req.expense_id].invoice_image)
            /\ files' = files]_vars

\* A delete failed on the removal of the file of the only stored expense.
C25_Witness ==
    /\ FailedBy(resp, "delete", {"remove_error"})
    /\ resp.status = 500
    /\ DOMAIN expenses = {resp.req.expense_id}
    /\ files = {expenses[resp.req.expense_id].invoice_image.v}

\* C26: a create with an attachment whose commit fails is answered 500 and
\* stores no row; the file it wrote stays in the directory, named by no
\* stored expense.
C26_CommitFailureOrphansFile ==
    [][(FailedBy(resp', "create", {"commit_error"}) /\ resp'.req.upload) =>
            /\ resp'.status = 500
            /\ expenses' = expenses
            /\ \E f \in files' \ files :
                /\ files' = files \cup {f}
                /\ f \in Orphans(expenses', files')]_vars

\* A create with an upload failed on its commit: one file is stored and no
\* expense.
C26_Witness ==
    /\ FailedBy(resp, "create", {"commit_error"})
    /\ resp.req.upload
    /\ resp.status = 500
    /\ expenses = <<>>
    /\ Cardinality(files) = 1
    /\ Orphans(expenses, files) = files

\* C28: whatever creates, updates and deletes ran, failed ones included,
\* every stored expense whose invoice image is set names a file that is in
\* the directory.
C28_AttachmentsExist ==
    \A i \in DOMAIN expenses :
        IsVal(expenses[i].invoice_image) => expenses[i].invoice_image.v \in files

\* ------------------------------------------------- updates side by side

\* Requests served at the same time.
MaxSessions == 2

\* The UPDATE the session flushes at commit: the unit of work writes the
\* columns whose value on the object differs from the loaded one, the row
\* keeps every other column as the database holds it.
FlushUpdate(stored, loaded, expense) ==
    [column \in DOMAIN stored |->
        IF expense[column] # loaded[column] THEN expense[column] ELSE stored[column]]

\* A session that has answered.
Done(req, expense, response) ==
    [pc |-> "done", req |-> req, expense |-> expense, response |-> response]

\* update_expense up to the result of the SELECT: the payload is validated,
\* the row is loaded and the payload's fields are assigned to the object.
UpdateSelect(Ids, Bodies, Images) ==
    /\ \E s \in (1 .. MaxSessions) \ DOMAIN sessions, expense_id \in Ids,
          body \in Bodies, invoice_image \in Images :
        LET req == [expense_id |-> expense_id, body |-> body,
                    upload |-> HasUpload(invoice_image)]
            exc == LoadPayload(body)
        IN  sessions' = sessions @@ (s :>
                IF ~IsNull(exc)
                THEN Done(req, Null, Failure("update", req, UpdateExcepts, exc, <<>>))
                ELSE IF expense_id \notin DOMAIN expenses
                THEN Done(req, Null,
                          Failure("update", req, UpdateExcepts,
                                  Raised("ValueError", "Expense not found"),
                                  <<"update_expense">>))
                ELSE [pc |-> "selected", req |-> req, invoice_image |-> invoice_image,
                      loaded |-> expenses[expense_id],
                      expense |-> ApplyUpdate(expenses[expense_id],
                                              ParsePayload(body.data))])
    /\ UNCHANGED <<expenses, category, users, files, uuids, resp>>

\* update_expense, the upload: the file the object names is removed when it
\* exists, the new file is written under a fresh name and the object names it.
UpdateFiles ==
    /\ uuids + 1 <= MaxUuids
    /\ \E s \in DOMAIN sessions :
        /\ sessions[s].pc = "selected"
        /\ sessions[s].req.upload
        /\ LET expense == sessions[s].expense
               new_image_filename == ImageFilename(uuids + 1, sessions[s].invoice_image)
               removed == IF IsVal(expense.invoice_image)
                          THEN files \ {expense.invoice_image.v} ELSE files
           IN  /\ files' = removed \cup {new_image_filename}
               /\ uuids' = uuids + 1
               /\ sessions' = [sessions EXCEPT
                    ![s].pc = "written",
                    ![s].expense.invoice_image = J(new_image_filename)]
    /\ UNCHANGED <<expenses, category, users, resp>>

\* update_expense from the timestamp on: the commit flushes the UPDATE of
\* the changed columns, the object is refreshed and returned.  An UPDATE that
\* matches no row, or breaks a foreign key, raises.
UpdateCommit(Times) ==
    /\ \E s \in DOMAIN sessions, t \in Times :
        /\ \/ sessions[s].pc = "written"
           \/ sessions[s].pc = "selected" /\ ~sessions[s].req.upload
        /\ LET req == sessions[s].req
               expense == [sessions[s].expense EXCEPT !.updated_at = t]
               failed == \/ req.expense_id \notin DOMAIN expenses
                         \/ ~ForeignKeysHold(category, users, expense)
               row == FlushUpdate(expenses[req.expense_id], sessions[s].loaded, expense)
           IN  IF failed
               THEN /\ sessions' = [sessions EXCEPT ![s] =
                        Done(req, expense,
                             Failure("update", req, UpdateExcepts,
                                     RaisedFrom("RuntimeError", "Error updating expense",
                                                Raised("DBAPIError", "flush")),
                                     <<"update_expense">>))]
                    /\ UNCHANGED expenses
               ELSE /\ expenses' = [expenses EXCEPT ![req.expense_id] = row]
                    /\ sessions' = [sessions EXCEPT ![s] =
                        Done(req, expense,
                             Success("update", req, 200, <<"update_expense">>,
                                     [expenses_id |-> req.expense_id, row |-> row]))]
    /\ UNCHANGED <<category, users, files, uuids, resp>>

\* The response of a session is sent and the session is closed.
SessionReturn ==
    /\ \E s \in DOMAIN sessions :
        /\ sessions[s].pc = "done"
        /\ sessions' = [o \in DOMAIN sessions \ {s} |-> sessions[o]]
    /\ UNCHANGED <<expenses, category, users, files, uuids, resp>>

\* ------------------------------------- specification: updates side by side

\* One expense is stored, or none.
InitConcurrent == InitStore(<<[user_id |-> "u1", body |-> FullBody]>>, 1, 1)

\* Updates whose steps interleave, and deletes between them.
NextConcurrent ==
    \/ UpdateSelect({1}, {FullUpdate, RequiredOnlyUpdate}, AttachmentImages)
    \/ UpdateFiles
    \/ UpdateCommit({1})
    \/ SessionReturn
    \/ DeleteExpenseEndpoint({1}, {"none"})
    \/ Return

SpecConcurrent == InitConcurrent /\ [][NextConcurrent]_vars

\* ---------------------------------------------- claims: updates side by side

\* C27: when an update commits after another update of the same expense has
\* committed, having loaded the row before that commit changed it, it
\* succeeds like the other and the stored row is, column by column, the
\* object it committed.
C27_LastWriteWins ==
    [][\A s, o \in DOMAIN sessions :
        (/\ s # o
         /\ sessions[s].pc # "done"
         /\ sessions'[s].pc = "done"
         /\ sessions[o].pc = "done"
         /\ sessions[o].response.status = 200
         /\ sessions[o].req.expense_id = sessions[s].req.expense_id
         /\ sessions[s].req.expense_id \in DOMAIN expenses
         /\ sessions[s].loaded # expenses[sessions[s].req.expense_id])
            => /\ sessions'[s].response.status = 200
               /\ expenses'[sessions[s].req.expense_id] = sessions'[s].expense]_vars

\* -------------------------------------- claims: relations between summaries

\* C29: in every general summary this_month is at least 0 and at most
\* this_quarter, and this_quarter is at most total_spending.
C29_SummaryOrdered ==
    IsSummary =>
        LET summary == resp.body.summary
        IN  /\ 0 <= summary.this_month
            /\ summary.this_month <= summary.this_quarter
            /\ summary.this_quarter <= summary.total_spending

\* A summary whose three figures differ: the current month has expenses, its
\* quarter has more, the year has more than the quarter.
C29_Witness ==
    /\ IsSummary
    /\ 0 < resp.body.summary.this_month
    /\ resp.body.summary.this_month < resp.body.summary.this_quarter
    /\ resp.body.summary.this_quarter < resp.body.summary.total_spending

\* The sum of the amounts of the rows of a category rollup.
RECURSIVE RowsTotal(_)
RowsTotal(rows) ==
    IF rows = <<>> THEN 0 ELSE Head(rows).amount + RowsTotal(Tail(rows))

\* C30 as stated: the amounts of the rows of the category rollup of a year
\* add up to the total_spending of the general summary of that year.
C30_RollupAddsUpExact ==
    IsRollup =>
        \A now \in Clocks :
            RowsTotal(resp.body.rows) =
                GetGeneralSummaryData(expenses, resp.body.year, now).total_spending

\* C30 amended: the amounts of the rows add up to the sum of the amounts of
\* the expenses of the year, each expense counted in one row, and that sum
\* rounded to two decimal places is the total_spending of the general summary
\* of the year.
C30_RollupAddsUp ==
    IsRollup =>
        /\ RowsTotal(resp.body.rows) = SumAmounts(Dated(resp.body.year, 1 .. 12))
        /\ \A now \in Clocks :
            Round2(RowsTotal(resp.body.rows)) =
                GetGeneralSummaryData(expenses, resp.body.year, now).total_spending

\* A rollup of two categories whose total is changed by the rounding, over a
\* store that also holds an expense of another year.
C30_Witness ==
    /\ IsRollup
    /\ Len(resp.body.rows) = 2
    /\ RowsTotal(resp.body.rows) # Round2(RowsTotal(resp.body.rows))
    /\ Round2(RowsTotal(resp.body.rows)) > 0
    /\ \E i \in DOMAIN expenses : expenses[i].expense_date.year # resp.body.year

====
